---- MODULE Spec2Model ----
(***************************************************************************)
(* Verification model of the BullBearLib trading scripts: the SDK wrapper  *)
(* lib.js, the per-strategy wrappers around openPosition / closePosition,  *)
(* and the run of a strategy (main / run) over its persisted state file.   *)
(***************************************************************************)
EXTENDS Integers, Sequences, FiniteSets, TLC

\* ------------------------------------------------------------------------
\* Strategies and SDK outcomes
\* ------------------------------------------------------------------------

\* The six strategies that share the managePositions shape, and the
\* Liquidity Imbalance Tracker, which has its own.
Strategies == {"FRA", "MBF", "FSR", "YH", "VBH", "RMM"}

AllStrategies == Strategies \cup {"LIT"}

\* The strategies whose documentation promises a cooldown after a close.
CooldownStrategies == {"FRA", "MBF", "FSR", "YH"}

\* What signingClient.execute can do: succeed, or throw an error whose
\* message is one of the two strings below.
ChainOutcomes == {"ok", "seq_mismatch", "rejected"}

ErrorMessage(outcome) ==
  IF outcome = "seq_mismatch"
    THEN "account sequence mismatch, expected 12, got 11"
    ELSE "execute wasm contract failed"

\* err.message.includes("account sequence mismatch")
IncludesSeqMismatch(msg) ==
  msg = "account sequence mismatch, expected 12, got 11"

\* attempt < 2 in every wrapper: attempts 0, 1, 2
RETRY_LIMIT == 2

\* setTimeout(resolve, 10000) in every wrapper, in seconds
RETRY_WAIT_SECONDS == 10

MaxAttempts == RETRY_LIMIT + 1

\* CONFIG.RETRY_MAX_ATTEMPTS of the Liquidity Imbalance Tracker
RETRY_MAX_ATTEMPTS == 3

\* CONFIG.RETRY_DELAY of the Liquidity Imbalance Tracker, in seconds
RETRY_DELAY_SECONDS == 20

\* A plausible slip: the retry follows the failed attempt at once.
retryDelayNone(attempt) == 0

\* if (attempts > 1) await setTimeout(RETRY_DELAY): the wait before the
\* attempt with the given number (1-based)
retryDelay(attempt) == IF attempt > 1 THEN RETRY_DELAY_SECONDS ELSE 0

\* One chain outcome per possible attempt of a wrapper.
OutcomeSeqs == [1..MaxAttempts -> ChainOutcomes]

\* The outcome sequences the runs are explored with: the chain keeps answering
\* the same way, or a sequence mismatch clears at a later attempt.
RunOutcomeSeqs ==
  {outs \in OutcomeSeqs :
     \/ \A i \in 1..MaxAttempts : outs[i] = outs[1]
     \/ /\ outs[1] = "seq_mismatch" /\ outs[MaxAttempts] = "ok"
        /\ \A i \in 2..MaxAttempts :
              outs[i] = "seq_mismatch" => outs[i - 1] = "seq_mismatch"}

\* ------------------------------------------------------------------------
\* lib.js: openPosition / closePosition
\* ------------------------------------------------------------------------

\* A plausible slip: the catch block rethrows instead of returning null.
libExecuteRethrows(outcome) ==
  IF outcome = "ok"
    THEN [threw |-> FALSE, result |-> "tx", message |-> ""]
    ELSE [threw |-> TRUE, result |-> "none", message |-> ErrorMessage(outcome)]

\* try { result = await execute(...); return result } catch { return null }
libExecute(outcome) ==
  IF outcome = "ok"
    THEN [threw |-> FALSE, result |-> "tx", message |-> ""]
    ELSE [threw |-> FALSE, result |-> "null", message |-> ""]

openPosition(outcome) == libExecute(outcome)

closePosition(outcome) == libExecute(outcome)

\* ------------------------------------------------------------------------
\* Strategy wrappers: openFRAPosition, closeFRAPosition and their copies
\* ------------------------------------------------------------------------

\* closeRMMPosition is the one wrapper without the retry branch.
HasRetry(s, op) == ~(s = "RMM" /\ op = "close")

\* The result of one wrapper invocation: what it returned or threw, how many
\* times it called lib.js, how long it slept and how often it refreshed the
\* client.
WrapperResult(result, threw, calls) ==
  [result |-> result, threw |-> threw, calls |-> calls,
   waited |-> (calls - 1) * RETRY_WAIT_SECONDS, refreshes |-> calls - 1]

RECURSIVE callWrapper(_, _, _, _)
callWrapper(s, op, outs, attempt) ==
  LET r == IF op = "open" THEN openPosition(outs[attempt + 1])
                          ELSE closePosition(outs[attempt + 1])
  IN IF ~r.threw
       THEN \* openFRAPosition turns a null result into { error: true }
            IF s = "FRA" /\ op = "open" /\ r.result = "null"
              THEN WrapperResult("error", FALSE, attempt + 1)
              ELSE WrapperResult(r.result, FALSE, attempt + 1)
       ELSE IF HasRetry(s, op) /\ IncludesSeqMismatch(r.message)
                 /\ attempt < RETRY_LIMIT
              THEN callWrapper(s, op, outs, attempt + 1)
              ELSE IF s = "FRA" /\ op = "open"
                     THEN WrapperResult("error", FALSE, attempt + 1)
                     ELSE WrapperResult("none", TRUE, attempt + 1)

\* ------------------------------------------------------------------------
\* Strategy configuration (the CONFIG object of each strategy file)
\* ------------------------------------------------------------------------

\* Market denoms the contract has enabled.
Assets == {"perps/ubtc", "perps/ueth"}

\* CONFIG.MAX_POSITIONS, the same in every strategy
MAX_POSITIONS == 3

\* CONFIG.MAX_POSITION_HOURS (MAX_POSITION_HOLD_HOURS in Yield Harvester,
\* MAX_HOLD_TIME in LIT)
MAX_POSITION_HOURS(s) ==
  CASE s = "FRA" -> 48
    [] s = "MBF" -> 24
    [] s = "FSR" -> 72
    [] s = "YH"  -> 72
    [] s = "VBH" -> 48
    [] s = "RMM" -> 12
    [] s = "LIT" -> 24

\* CONFIG.BLACKLIST_HOURS / BLACKLIST_EXPIRY_HOURS / ASSET_BLACKLIST_HOURS /
\* BLACKLIST_TIME, the literal 6 hours in Yield Harvester
BLACKLIST_HOURS(s) ==
  CASE s = "FRA" -> 6
    [] s = "MBF" -> 8
    [] s = "FSR" -> 6
    [] s = "YH"  -> 6
    [] s = "LIT" -> 6
    [] OTHER     -> 0

\* The pause of FRA's open loop before every iteration but the first:
\* setTimeout(resolve, 20000), in seconds
OPEN_DELAY_SECONDS == 20

\* The time an open loop waits before iteration i (0-based): only FRA waits.
openDelay(s, i) == IF s = "FRA" /\ i > 0 THEN OPEN_DELAY_SECONDS ELSE 0

\* rmm-strategy.js CONFIG
ROTATION_DELAY_MINUTES == 5
IGNORE_BLACKLIST == TRUE

\* ------------------------------------------------------------------------
\* Bounds of the model
\* ------------------------------------------------------------------------

\* Positions the strategy may open on-chain in one behaviour (ids
\* 1..MaxOpens): with one market and the clock standing still, with time
\* passing, with every strategy on both markets, and with overlapping runs.
MaxOpens == 4
MaxOpensTimed == 2
MaxOpensAll == 2
MaxOpensConc == 2
MaxOpensLIT == 2

\* Number of times the clock advances between runs.
MaxTicks == 2

\* Hours by which the clock advances between two runs.
TimeSteps == {3, 76}

NoEntry == -1

\* ------------------------------------------------------------------------
\* The state file: loadState / saveState and the helpers that edit it
\* ------------------------------------------------------------------------

\* loadState's default when no file exists
EmptyState ==
  [positions |-> {}, blacklist |-> [a \in Assets |-> NoEntry],
   lastRotation |-> 0, lastRun |-> NoEntry]

\* A plausible slip: the writer merges its positions into what is on disk.
saveStateMerges(disk, st) ==
  [st EXCEPT !.positions = @ \cup disk.positions]

\* fs.writeFileSync(STATE_FILE, JSON.stringify(state)): whatever the file
\* held is replaced by the state object of the writer.
saveState(disk, st) == st

TrackedIds(st) == {p.id : p \in st.positions}

PositionOf(st, id) == CHOOSE p \in st.positions : p.id = id

\* delete state.positions[positionId]
DeletePosition(st, id) ==
  [st EXCEPT !.positions = {p \in @ : p.id # id}]

\* state.positions[positionId] = { createdAt: Date.now(), assets, ... }
StorePosition(st, id, assets, t) ==
  [st EXCEPT !.positions =
     {p \in @ : p.id # id} \cup {[id |-> id, assets |-> assets, createdAt |-> t]}]

\* cleanupState of MBF and Yield Harvester: drop every tracked position whose
\* id is not in the list getPositions returned.
cleanupState(st, openIds) ==
  [st EXCEPT !.positions = {p \in @ : p.id \in openIds}]

\* denom.startsWith('perps/')
IsPerps(denom) == denom \in {"perps/ubtc", "perps/ueth"}

\* A plausible slip: the blacklist is never consulted.
IsBlacklistedNever(s, st, denom, t) == FALSE

\* The blacklist test of each opportunity search.
IsBlacklisted(s, st, denom, t) ==
  CASE s \in {"FRA", "YH"} ->
         st.blacklist[denom] # NoEntry /\ st.blacklist[denom] > t
    [] s = "FSR" -> st.blacklist[denom] # NoEntry
    [] s = "MBF" ->
         st.blacklist[denom] # NoEntry
           /\ t - st.blacklist[denom] < BLACKLIST_HOURS("MBF")
    [] s = "RMM" -> st.blacklist[denom] # NoEntry /\ ~IGNORE_BLACKLIST
    [] s = "LIT" -> st.blacklist[denom] # NoEntry
    [] OTHER -> FALSE

\* The blacklist entry written for an asset at time t: an expiration time in
\* FRA, FSR, Yield Harvester and LIT, the time of the entry in MBF, membership
\* of the list in RMM.
BlacklistEntry(s, t) ==
  CASE s \in {"FRA", "FSR", "YH", "LIT"} -> t + BLACKLIST_HOURS(s)
    [] s = "MBF" -> t
    [] OTHER -> 1

\* Blacklist the given assets (VBH keeps no blacklist).
blacklistAssets(s, st, assets, t) ==
  IF s = "VBH" THEN st
  ELSE [st EXCEPT !.blacklist =
          [a \in Assets |->
             IF a \in assets /\ (s \notin {"FRA", "MBF"} \/ IsPerps(a))
               THEN BlacklistEntry(s, t) ELSE @[a]]]

\* A plausible slip: the emergency path forgets to empty the list.
clearBlacklistKeeps(st) == st

\* state.assetBlacklist = []
clearBlacklist(st) ==
  [st EXCEPT !.blacklist = [a \in Assets |-> NoEntry]]

BlacklistLength(st) == Cardinality({a \in Assets : st.blacklist[a] # NoEntry})

\* updateMarketData (MBF, FSR, VBH, RMM): stamps lastRun; FSR also removes
\* the blacklist entries whose expiration lies in the past.
updateMarketData(s, st, t) ==
  LET stamped == [st EXCEPT !.lastRun = t]
  IN IF s = "FSR"
       THEN [stamped EXCEPT !.blacklist =
               [a \in Assets |->
                  IF @[a] # NoEntry /\ t > @[a] THEN NoEntry ELSE @[a]]]
       ELSE stamped

\* getBlacklistedAssets of MBF filters the expired entries out of the list.
getBlacklistedAssets(s, st, t) ==
  IF s = "MBF"
    THEN [st EXCEPT !.blacklist =
            [a \in Assets |->
               IF @[a] # NoEntry /\ t - @[a] < BLACKLIST_HOURS("MBF")
                 THEN @[a] ELSE NoEntry]]
    ELSE st

\* loadBlacklist of LIT deletes the entries whose "until" lies in the past
\* and writes the file back.
loadBlacklist(st, t) ==
  [st EXCEPT !.blacklist =
     [a \in Assets |-> IF @[a] # NoEntry /\ @[a] < t THEN NoEntry ELSE @[a]]]

\* ------------------------------------------------------------------------
\* Analysis: opportunities and exit conditions
\* ------------------------------------------------------------------------

\* An opportunity: the denom and the direction the scoring picked.
Opportunity == [denom : Assets, long : BOOLEAN]

\* What the market data can make the scoring produce: a ranked list of
\* opportunities on distinct enabled denoms.
SignalSeqs(enabled) ==
  UNION {{s \in [1..n -> Opportunity] :
            /\ \A i \in 1..n : s[i].denom \in enabled
            /\ \A i, j \in 1..n : i # j => s[i].denom # s[j].denom}
         : n \in 0..Cardinality(enabled)}

\* "already trading" / "hasExistingPosition": a tracked position holds the denom
AlreadyTrading(st, denom) == \E p \in st.positions : denom \in p.assets

\* The filters each find*Opportunities applies before scoring.
Skipped(s, st, denom, t) ==
  \/ IsBlacklisted(s, st, denom, t)
  \/ s \in {"MBF", "FSR", "YH"} /\ AlreadyTrading(st, denom)

findOpportunities(s, st, signal, t) ==
  LET Keep(o) == ~Skipped(s, st, o.denom, t)
  IN SelectSeq(signal, Keep)

\* holdTimeHours > CONFIG.MAX_POSITION_HOURS; holdTime >= MAX_HOLD_TIME in LIT
MaxHoldReached(s, p, t) ==
  IF s = "LIT" THEN t - p.createdAt >= MAX_POSITION_HOURS(s)
               ELSE t - p.createdAt > MAX_POSITION_HOURS(s)

\* checkExitConditions: the hold-time test and the price and funding tests,
\* whose outcome the market decides.
checkExitConditions(s, p, t, marketExit) ==
  MaxHoldReached(s, p, t) \/ marketExit

Min(S) == CHOOSE x \in S : \A y \in S : x <= y

Max(S) == CHOOSE x \in S : \A y \in S : x >= y

RECURSIVE SortedSeq(_)
SortedSeq(S) ==
  IF S = {} THEN <<>> ELSE <<Min(S)>> \o SortedSeq(S \ {Min(S)})

\* The asset payload of a new position.
positionAssets(s, opp, opps) ==
  LET other == {i \in 1..Len(opps) :
                  /\ opps[i].denom # opp.denom
                  /\ (s = "FSR" => opps[i].long # opp.long)}
  IN IF s \in {"FSR", "RMM"} /\ other # {}
       THEN {opp.denom, opps[Min(other)].denom}
       ELSE {opp.denom}

\* main() wraps its whole body in try / catch and only logs the error.
mainCatches(s) == TRUE

\* CONFIG.COLLATERAL, and CONFIG.MIN_USDC_BALANCE of LIT, in tenths of a USDC
requiredBalance(s) ==
  CASE s = "LIT" -> 150
    [] s = "RMM" -> 110
    [] OTHER -> 101

\* What getBalance can return, in tenths of a USDC; 0 also when the query
\* fails.
Balances == {0, 100, 101, 110, 150}

\* A plausible slip: the balance is logged and never tested.
insufficientBalanceIgnored(s, balance) == FALSE

\* if (balance < CONFIG.COLLATERAL) return;
insufficientBalance(s, balance) == balance < requiredBalance(s)

\* ------------------------------------------------------------------------
\* State
\* ------------------------------------------------------------------------

VARIABLES
  call,      \* the last wrapper invocation and what it did
  strat,     \* the strategy whose runs are modelled
  markets,   \* the denoms getMarkets returns
  now,       \* Date.now(), in hours
  ticks,     \* how often the clock has advanced
  budget,    \* bounds of the behaviour: positions to open, clock advances
  chain,     \* the wallet's open positions on the contract: [id, assets, by]
  nextId,    \* the id the contract gives the next position
  file,      \* the strategy's state file
  history,   \* the strategy's trade-history file
  mem,       \* the state object of the run in progress
  pc,        \* where the run in progress stands
  queue,     \* ids of the positions the exit loop has still to examine
  scan,      \* the market data of a recursing opportunity search (RMM)
  plan,      \* opportunitiesToTake still to be visited, with their payload
  slots,     \* availableSlots (VBH)
  opened,    \* positionsOpened (VBH)
  active,    \* activeAssets (VBH)
  depth,     \* recursion depth of findDemoOpportunities (RMM)
  attempts,  \* the attempts counter of a retry loop (LIT)
  lastCloseAt, \* per asset, when the strategy last closed a position on it
  runLog,    \* what the current or last run was owed and did
  conc,      \* two overlapping runs over the same files
  eval,      \* the last evaluation of an analysis function: inputs and outputs
  shell      \* a shell script of the repository: where it stands, its child

runVars == <<strat, markets, now, ticks, budget, chain, nextId, file, history,
             mem, pc, queue, scan, plan, slots, opened, active, depth,
             attempts, lastCloseAt, runLog>>

vars == <<call, eval, shell, runVars, conc>>

NoRunLog == [overdue |-> {}, closeCalls |-> {}, closedAssets |-> {},
             reentered |-> FALSE, uncaught |-> FALSE,
             openIter |-> 0, openCalls |-> 0, openOk |-> FALSE,
             undelayed |-> FALSE, openedId |-> 0, startId |-> 0,
             lowBalance |-> FALSE]

NoCall == [strat |-> "none", op |-> "none", outs |-> <<>>,
           result |-> "none", threw |-> FALSE, calls |-> 0,
           waited |-> 0, refreshes |-> 0, libThrew |-> FALSE,
           libResult |-> "none"]

Runs == {1, 2}

NoConc == [local |-> [r \in Runs |-> EmptyState],
           trades |-> [r \in Runs |-> <<>>],
           at |-> [r \in Runs |-> "idle"],
           seen |-> [r \in Runs |-> {}],
           writer |-> 0, lost |-> {}, lostTrades |-> {}]

ChainIds == {p.id : p \in chain}

ChainAssets(id) == (CHOOSE p \in chain : p.id = id).assets

\* A plausible slip: the history read from the file is dropped before the push.
recordTradeOverwrites(hist, action, id) == <<[action |-> action, id |-> id]>>

\* recordTrade: read the history file, push one entry, write it back
recordTrade(hist, action, id) == Append(hist, [action |-> action, id |-> id])

\* No analysis function evaluated yet.
NoEval == [fn |-> "none"]

\* No script has been launched.
NoShell == [script |-> "none", interval |-> 0, pc |-> "none", running |-> 0,
            exit_code |-> 0, executionTime |-> 0, slept |-> 0,
            overlapped |-> FALSE, failures |-> 0]

InitRun(s, enabled, maxOpens, maxTicks) ==
  /\ strat = s
  /\ eval = NoEval
  /\ shell = NoShell
  /\ markets = enabled
  /\ budget = [opens |-> maxOpens, ticks |-> maxTicks]
  /\ now = 0
  /\ ticks = 0
  /\ chain = {}
  /\ nextId = 1
  /\ file = EmptyState
  /\ history = <<>>
  /\ mem = EmptyState
  /\ pc = "idle"
  /\ queue = <<>>
  /\ scan = <<>>
  /\ plan = <<>>
  /\ slots = 0
  /\ opened = 0
  /\ active = {}
  /\ depth = 0
  /\ attempts = 0
  /\ lastCloseAt = [a \in Assets |-> NoEntry]
  /\ runLog = NoRunLog

\* ------------------------------------------------------------------------
\* The environment between two runs
\* ------------------------------------------------------------------------

\* Time passes between two runs of the runner script's loop.
Tick ==
  /\ pc = "idle"
  /\ ticks < budget.ticks
  /\ \E d \in TimeSteps : now' = now + d
  /\ ticks' = ticks + 1
  /\ runLog' = NoRunLog
  /\ UNCHANGED <<call, eval, shell, conc, strat, markets, budget, chain, nextId, file,
                 history, mem, pc, queue, scan, plan, slots, opened, active,
                 depth, attempts, lastCloseAt>>

\* The contract liquidates a position, or the user closes it by hand.
Liquidate ==
  /\ pc = "idle"
  /\ \E p \in chain : chain' = chain \ {p}
  /\ runLog' = NoRunLog
  /\ UNCHANGED <<call, eval, shell, conc, strat, markets, now, ticks, budget, nextId, file,
                 history, mem, pc, queue, scan, plan, slots, opened, active,
                 depth, attempts, lastCloseAt>>

\* ------------------------------------------------------------------------
\* One run of a strategy: main() / run()
\* ------------------------------------------------------------------------

\* Tracked positions that are open on-chain and past the maximum hold time.
Overdue ==
  {p.id : p \in {q \in file.positions :
                   q.id \in ChainIds /\ MaxHoldReached(strat, q, now)}}

\* main() up to the exit loop of managePositions: getClient, getBalance,
\* loadState, getMarkets, updateMarketData, getPositions, cleanupState.
StartRun ==
  /\ pc = "idle"
  /\ strat \in Strategies
  /\ \E clientOk, marketsOk, positionsOk \in BOOLEAN, balance \in Balances :
       LET balanceOk == ~insufficientBalance(strat, balance)
           abort == \/ ~clientOk
                    \/ ~balanceOk
                    \/ strat = "YH" /\ ~marketsOk
           st1 == IF strat \in {"MBF", "FSR", "VBH", "RMM"}
                    THEN updateMarketData(strat, file, now) ELSE file
           openIds == IF positionsOk THEN ChainIds ELSE {}
           st2 == IF strat \in {"MBF", "YH"}
                    THEN cleanupState(st1, openIds) ELSE st1
       IN /\ runLog' = [NoRunLog EXCEPT
                          !.overdue = Overdue,
                          !.startId = nextId,
                          !.lowBalance =
                             clientOk /\ balance < requiredBalance(strat),
                          !.uncaught = ~clientOk /\ ~mainCatches(strat)]
          /\ IF abort
               THEN UNCHANGED <<file, mem, pc, queue, active>>
               ELSE /\ file' = saveState(file, st2)
                    /\ mem' = st2
                    /\ pc' = "exits"
                    /\ queue' = SortedSeq(openIds)
                    /\ active' = IF strat = "VBH"
                                   THEN UNION {ChainAssets(i) :
                                          i \in openIds \cap TrackedIds(st2)}
                                   ELSE {}
  /\ UNCHANGED <<call, eval, shell, conc, strat, markets, now, ticks, budget, chain, nextId,
                 history, scan, plan, slots, opened, depth, attempts,
                 lastCloseAt>>

\* One iteration of "for (const position of openPositions)". The body of the
\* iteration sits in a try/catch: an exception out of the close wrapper is
\* logged and the loop goes on with the next position.
ExitStep ==
  /\ pc = "exits"
  /\ strat \in Strategies
  /\ queue # <<>>
  /\ \E marketExit \in BOOLEAN, outs \in RunOutcomeSeqs :
       LET id == Head(queue)
           exit == /\ id \in TrackedIds(mem)
                   /\ checkExitConditions(strat, PositionOf(mem, id), now,
                                          marketExit)
           w == callWrapper(strat, "close", outs, 0)
           assets == ChainAssets(id)
           closed == exit /\ w.result = "tx"
           recorded == exit /\ ~w.threw
           st == DeletePosition(blacklistAssets(strat, mem, assets, now), id)
       IN /\ chain' = IF closed THEN {p \in chain : p.id # id} ELSE chain
          /\ lastCloseAt' = IF closed /\ strat \in CooldownStrategies
                              THEN [a \in Assets |->
                                      IF a \in assets THEN now
                                      ELSE lastCloseAt[a]]
                              ELSE lastCloseAt
          /\ runLog' = IF exit
                         THEN [runLog EXCEPT
                                 !.closeCalls = @ \cup {id},
                                 !.closedAssets =
                                    IF closed THEN @ \cup assets ELSE @]
                         ELSE runLog
          /\ queue' = Tail(queue)
          /\ IF recorded
               THEN /\ history' = recordTrade(history, "close", id)
                    /\ mem' = st
                    /\ file' = saveState(file, st)
               ELSE UNCHANGED <<file, history, mem>>
  /\ UNCHANGED <<call, eval, shell, conc, strat, markets, now, ticks, budget, nextId, scan,
                 plan, slots, opened, active, pc, depth, attempts>>

\* End of main(): FRA and Yield Harvester stamp lastRun in their state object
\* and save it; LIT loads the file, stamps lastRun and saves.
FinishedState(st) ==
  CASE strat \in {"FRA", "YH"} -> saveState(file, [st EXCEPT !.lastRun = now])
    [] strat = "LIT" -> saveState(file, [file EXCEPT !.lastRun = now])
    [] OTHER -> file

\* managePositions between the exit loop and the open loop: the position
\* limit, the opportunity search and the choice of the opportunities to take,
\* each with the asset payload the open loop builds for it. The emergency
\* path of findDemoOpportunities (RMM) clears the blacklist and searches again.
PlanEntry ==
  /\ pc = "exits"
  /\ strat \in Strategies
  /\ queue = <<>>
  /\ \E signal \in (IF depth = 0 THEN SignalSeqs(markets) ELSE {scan}) :
       LET count == Cardinality(mem.positions)
           full == count >= MAX_POSITIONS
           rotate == strat = "RMM" /\ ~full
                       /\ (now - mem.lastRotation) * 60 > ROTATION_DELAY_MINUTES
           st1 == IF rotate
                    THEN [clearBlacklist(mem) EXCEPT !.lastRotation = now]
                    ELSE mem
           st2 == IF full THEN st1 ELSE getBlacklistedAssets(strat, st1, now)
           \* RMM builds its blacklist set before the rotation clears the list
           listed == IF strat = "RMM" THEN mem ELSE st2
           found == IF full THEN <<>>
                    ELSE findOpportunities(strat, listed, signal, now)
           emergency == strat = "RMM" /\ ~full /\ found = <<>>
                          /\ BlacklistLength(st2) > 0
           st3 == IF emergency THEN clearBlacklist(st2) ELSE st2
           free == MAX_POSITIONS - count
           take == IF strat = "VBH" \/ Len(found) < free
                     THEN Len(found) ELSE free
       IN /\ mem' = st3
          /\ file' = IF rotate \/ emergency THEN saveState(file, st3) ELSE file
          /\ IF emergency
               THEN /\ depth' = depth + 1
                    /\ scan' = signal
                    /\ UNCHANGED <<pc, plan, slots>>
               ELSE /\ depth' = 0
                    /\ scan' = <<>>
                    /\ pc' = "opens"
                    /\ plan' = [i \in 1..take |->
                                  [denom |-> found[i].denom,
                                   assets |-> positionAssets(strat, found[i], found)]]
                    /\ slots' = IF strat = "VBH" THEN free ELSE 0
  /\ UNCHANGED <<call, eval, shell, conc, strat, markets, now, ticks, budget, chain, nextId,
                 history, queue, opened, active, attempts, lastCloseAt, runLog>>

\* One iteration of the loop that opens positions. The body of the iteration
\* sits in a try/catch: an exception out of the open wrapper is logged and the
\* loop goes on. The position is tracked only when its id can be read from
\* the events of the transaction result.
OpenStep ==
  /\ pc = "opens"
  /\ strat \in Strategies
  /\ plan # <<>>
  /\ nextId <= budget.opens
  /\ \E outs \in RunOutcomeSeqs, idFound \in BOOLEAN :
       LET opp == Head(plan)
           assets == opp.assets
           skip == strat = "VBH" /\ opp.denom \in active
           w == callWrapper(strat, "open", outs, 0)
           onChain == ~skip /\ w.result = "tx"
           id == nextId
           tracked == onChain /\ idFound
           st1 == IF strat \in {"MBF", "RMM"}
                    THEN blacklistAssets(strat, mem, assets, now) ELSE mem
           st2 == StorePosition(st1, id, assets, now)
           failed == blacklistAssets("FRA", mem, {opp.denom}, now)
       IN /\ chain' = IF onChain
                        THEN chain \cup {[id |-> id, assets |-> assets,
                                         by |-> strat]}
                        ELSE chain
          /\ nextId' = IF onChain THEN nextId + 1 ELSE nextId
          /\ runLog' = [runLog EXCEPT
                          !.reentered =
                             @ \/ (onChain /\ assets \cap runLog.closedAssets # {}),
                          !.openIter = @ + 1,
                          !.openCalls = IF skip THEN @ ELSE @ + 1,
                          !.undelayed =
                             @ \/ (/\ ~skip
                                    /\ runLog.openCalls > 0
                                    /\ openDelay(strat, runLog.openIter) = 0)]
          /\ IF tracked
               THEN /\ mem' = st2
                    /\ file' = saveState(file, st2)
                    /\ history' = recordTrade(history, "open", id)
                    /\ opened' = IF strat = "VBH" THEN opened + 1 ELSE opened
                    /\ active' = IF strat = "VBH"
                                   THEN active \cup {opp.denom} ELSE active
                    /\ plan' = IF strat = "VBH" /\ opened + 1 >= slots
                                 THEN <<>> ELSE Tail(plan)
               ELSE /\ plan' = Tail(plan)
                    /\ UNCHANGED <<history, opened, active>>
                    /\ IF ~skip /\ strat = "FRA" /\ w.result = "error"
                         THEN mem' = failed /\ file' = saveState(file, failed)
                         ELSE UNCHANGED <<mem, file>>
  /\ UNCHANGED <<call, eval, shell, conc, strat, markets, now, ticks, budget, queue, scan,
                 pc, slots, depth, attempts, lastCloseAt>>

\* managePositions returns and main() finishes.
EndRun ==
  /\ pc = "opens"
  /\ plan = <<>> \/ nextId > budget.opens
  /\ file' = FinishedState(mem)
  /\ mem' = EmptyState
  /\ pc' = "idle"
  /\ plan' = <<>>
  /\ slots' = 0
  /\ opened' = 0
  /\ active' = {}
  /\ attempts' = 0
  /\ runLog' = [runLog EXCEPT !.closedAssets = {}, !.openIter = 0,
                               !.openCalls = 0, !.openOk = FALSE]
  /\ UNCHANGED <<call, eval, shell, conc, strat, markets, now, ticks, budget, chain, nextId,
                 history, queue, scan, depth, lastCloseAt>>

\* ------------------------------------------------------------------------
\* One run of the Liquidity Imbalance Tracker: executeStrategy()
\* ------------------------------------------------------------------------

\* executeStrategy up to the loop of checkExistingPositions: getClient (an
\* exception ends the run in the catch block), the balance test, loadState,
\* getPositions. A tracked position missing from the list getPositions
\* returned is left out of updatedPositions.
LITStart ==
  /\ pc = "idle"
  /\ strat = "LIT"
  /\ \E clientOk, positionsOk \in BOOLEAN, balance \in Balances :
       LET balanceOk == ~insufficientBalance(strat, balance)
           openIds == IF positionsOk THEN ChainIds ELSE {}
           kept == cleanupState(file, openIds)
       IN /\ runLog' = [NoRunLog EXCEPT
                          !.overdue = Overdue,
                          !.startId = nextId,
                          !.lowBalance =
                             clientOk /\ balance < requiredBalance(strat),
                          !.uncaught = ~clientOk /\ ~mainCatches(strat)]
          /\ IF ~clientOk \/ ~balanceOk
               THEN UNCHANGED <<mem, pc, queue>>
               ELSE /\ mem' = kept
                    /\ pc' = "exits"
                    /\ queue' = SortedSeq(TrackedIds(kept))
  /\ attempts' = 0
  /\ UNCHANGED <<call, eval, shell, conc, strat, markets, now, ticks, budget, chain, nextId,
                 file, history, scan, plan, slots, opened, active, depth,
                 lastCloseAt>>

\* One pass through the body of checkExistingPositions' loop for the position
\* at the head of the queue: the exit test, and one iteration of
\* "while (!closeResult && attempts < RETRY_MAX_ATTEMPTS)".
LITCloseAttempt ==
  /\ pc = "exits"
  /\ strat = "LIT"
  /\ queue # <<>>
  /\ \E priceOk, marketExit \in BOOLEAN, out \in ChainOutcomes :
       LET id == Head(queue)
           shouldClose == \/ attempts > 0
                          \/ /\ priceOk
                             /\ checkExitConditions(strat, PositionOf(mem, id),
                                                    now, marketExit)
           r == closePosition(out)
           closed == shouldClose /\ r.result = "tx"
           again == shouldClose /\ ~closed /\ attempts + 1 < RETRY_MAX_ATTEMPTS
       IN /\ chain' = IF closed THEN {p \in chain : p.id # id} ELSE chain
          /\ mem' = IF closed THEN DeletePosition(mem, id) ELSE mem
          /\ runLog' = IF shouldClose
                         THEN [runLog EXCEPT
                                 !.closeCalls = @ \cup {id},
                                 !.closedAssets =
                                    IF closed THEN @ \cup ChainAssets(id) ELSE @]
                         ELSE runLog
          /\ attempts' = IF again THEN attempts + 1 ELSE 0
          /\ queue' = IF again THEN queue ELSE Tail(queue)
  /\ UNCHANGED <<call, eval, shell, conc, strat, markets, now, ticks, budget, nextId, file,
                 history, pc, scan, plan, slots, opened, active, depth,
                 lastCloseAt>>

\* The end of checkExistingPositions (the state is saved when a position
\* left it) and the choice of the best opportunity. With no opportunity
\* executeStrategy returns at once.
LITPlan ==
  /\ pc = "exits"
  /\ strat = "LIT"
  /\ queue = <<>>
  /\ \E signal \in SignalSeqs(markets) :
       LET changed == mem.positions # file.positions
           st1 == IF changed
                    THEN saveState(file, [file EXCEPT !.positions = mem.positions])
                    ELSE file
           full == Cardinality(mem.positions) >= MAX_POSITIONS
           st2 == IF full THEN st1 ELSE loadBlacklist(st1, now)
           found == IF full THEN <<>>
                    ELSE findOpportunities(strat, st2, signal, now)
       IN /\ file' = st2
          /\ IF ~full /\ found = <<>>
               THEN /\ pc' = "idle"
                    /\ mem' = EmptyState
                    /\ plan' = <<>>
               ELSE /\ pc' = "opens"
                    /\ mem' = mem
                    /\ plan' = IF full THEN <<>>
                               ELSE <<[denom |-> found[1].denom,
                                       assets |-> {found[1].denom}]>>
  /\ UNCHANGED <<call, eval, shell, conc, strat, markets, now, ticks, budget, chain, nextId,
                 history, queue, scan, slots, opened, active, depth, attempts,
                 lastCloseAt, runLog>>

\* One iteration of "while (!openResult && attempts < RETRY_MAX_ATTEMPTS)" in
\* openNewPosition, and what follows the loop once it ends: the asset is
\* blacklisted after the last failed attempt; after a success the position id
\* is read from the events or taken from the latest on-chain position.
LITOpenAttempt ==
  /\ pc = "opens"
  /\ strat = "LIT"
  /\ plan # <<>>
  /\ nextId <= budget.opens
  /\ \E out \in ChainOutcomes, idFound, positionsOk \in BOOLEAN :
       LET opp == Head(plan)
           r == openPosition(out)
           onChain == r.result = "tx"
           after == IF onChain
                      THEN chain \cup {[id |-> nextId, assets |-> opp.assets,
                                       by |-> strat]}
                      ELSE chain
           latest == Max({p.id : p \in after})
           tracked == onChain /\ (idFound \/ positionsOk)
           id == IF idFound THEN nextId ELSE latest
           again == ~onChain /\ attempts + 1 < RETRY_MAX_ATTEMPTS
           listed == blacklistAssets(strat, loadBlacklist(file, now),
                                     {opp.denom}, now)
       IN /\ chain' = after
          /\ nextId' = IF onChain THEN nextId + 1 ELSE nextId
          /\ runLog' = [runLog EXCEPT
                          !.reentered =
                             @ \/ (onChain /\ opp.assets \cap runLog.closedAssets # {}),
                          !.openCalls = @ + 1,
                          !.openOk = @ \/ onChain,
                          !.undelayed =
                             @ \/ (/\ runLog.openCalls > 0
                                    /\ retryDelay(attempts + 1) = 0)]
          /\ attempts' = IF again THEN attempts + 1 ELSE 0
          /\ plan' = IF again THEN plan ELSE <<>>
          /\ file' = CASE tracked ->
                            saveState(file, StorePosition(file, id, opp.assets, now))
                       [] ~onChain /\ ~again -> listed
                       [] OTHER -> file
  /\ UNCHANGED <<call, eval, shell, conc, strat, markets, now, ticks, budget, history, mem,
                 pc, queue, scan, slots, opened, active, depth, lastCloseAt>>

\* ------------------------------------------------------------------------
\* Two overlapping runs of one strategy over the same files
\* ------------------------------------------------------------------------

concFrame == <<call, eval, shell, strat, markets, now, ticks, budget, chain, mem, pc, queue,
               scan, plan, slots, opened, active, depth, attempts, lastCloseAt,
               runLog>>

\* What a write to the state file removed although the writer never knew it.
LostIds(r, after) ==
  {i \in TrackedIds(file) \ TrackedIds(after) : i \notin conc.seen[r]}

\* The write of run r's state object to the state file.
ConcSave(r, st, at, seen) ==
  /\ file' = saveState(file, st)
  /\ conc' = [conc EXCEPT !.local[r] = st,
                          !.at[r] = at,
                          !.seen[r] = seen,
                          !.writer = r,
                          !.lost = @ \cup LostIds(r, saveState(file, st))]

\* loadState at the start of main(): nothing keeps a second run from
\* loading while the first has not finished.
ConcLoad ==
  \E r \in Runs :
    /\ conc.at[r] = "idle"
    /\ conc' = [conc EXCEPT !.local[r] = file,
                            !.at[r] = "running",
                            !.seen[r] = TrackedIds(file)]
    /\ UNCHANGED <<file, history, nextId, concFrame>>

\* The run opens a position, tracks it in its state object and saves.
ConcTrack ==
  \E r \in Runs :
    /\ conc.at[r] = "running"
    /\ nextId <= budget.opens
    /\ \E a \in markets :
         ConcSave(r, StorePosition(conc.local[r], nextId, {a}, now), "record",
                  conc.seen[r] \cup {nextId})
    /\ nextId' = nextId + 1
    /\ UNCHANGED <<history, concFrame>>

\* recordTrade, first half: fs.readFileSync of the history file.
ConcReadHistory ==
  \E r \in Runs :
    /\ conc.at[r] = "record"
    /\ conc' = [conc EXCEPT !.trades[r] = history, !.at[r] = "append"]
    /\ UNCHANGED <<file, history, nextId, concFrame>>

\* recordTrade, second half: push the entry and fs.writeFileSync.
ConcWriteHistory ==
  \E r \in Runs :
    /\ conc.at[r] = "append"
    /\ LET id == Max(TrackedIds(conc.local[r]))
           written == recordTrade(conc.trades[r], "open", id)
           Entries(h) == {h[i] : i \in 1..Len(h)}
       IN /\ history' = written
          /\ conc' = [conc EXCEPT !.at[r] = "running",
                                  !.trades[r] = <<>>,
                                  !.lostTrades = @ \cup (Entries(history)
                                                           \ Entries(written))]
    /\ UNCHANGED <<file, nextId, concFrame>>

\* The run closes a position it tracks: blacklist, delete, save.
ConcClose ==
  \E r \in Runs :
    /\ conc.at[r] = "running"
    /\ \E p \in conc.local[r].positions :
         ConcSave(r, DeletePosition(blacklistAssets(strat, conc.local[r],
                                                    p.assets, now), p.id),
                  "running", conc.seen[r])
    /\ UNCHANGED <<history, nextId, concFrame>>

\* End of main(): lastRun is stamped and the state object saved once more.
ConcEnd ==
  \E r \in Runs :
    /\ conc.at[r] = "running"
    /\ ConcSave(r, [conc.local[r] EXCEPT !.lastRun = now], "done",
                conc.seen[r])
    /\ UNCHANGED <<history, nextId, concFrame>>

\* Two runs, each started once, on one market.
InitConc ==
  /\ call = NoCall
  /\ conc = NoConc
  /\ InitRun("FRA", {"perps/ubtc"}, MaxOpensConc, 0)

NextConc ==
  \/ ConcLoad
  \/ ConcTrack
  \/ ConcReadHistory
  \/ ConcWriteHistory
  \/ ConcClose
  \/ ConcEnd

SpecConc == InitConc /\ [][NextConc]_vars

\* ------------------------------------------------------------------------
\* Specification of single wrapper invocations
\* ------------------------------------------------------------------------

CallRecord(s, op, outs) ==
  LET w == callWrapper(s, op, outs, 0)
      l == IF op = "open" THEN openPosition(outs[1]) ELSE closePosition(outs[1])
  IN [strat |-> s, op |-> op, outs |-> outs,
      result |-> w.result, threw |-> w.threw, calls |-> w.calls,
      waited |-> w.waited, refreshes |-> w.refreshes,
      libThrew |-> l.threw, libResult |-> l.result]

InitCall == call = NoCall /\ conc = NoConc /\ InitRun("FRA", Assets, 0, 0)

InvokeOpen ==
  \E s \in Strategies, outs \in OutcomeSeqs :
    call' = CallRecord(s, "open", outs) /\ UNCHANGED <<eval, shell, runVars, conc>>

InvokeClose ==
  \E s \in Strategies, outs \in OutcomeSeqs :
    call' = CallRecord(s, "close", outs) /\ UNCHANGED <<eval, shell, runVars, conc>>

NextCall == InvokeOpen \/ InvokeClose

SpecCall == InitCall /\ [][NextCall]_vars

\* ------------------------------------------------------------------------
\* Specifications of the sequential runs of one strategy
\* ------------------------------------------------------------------------

\* Runs on one market while the clock stands still.
Init ==
  /\ call = NoCall
  /\ conc = NoConc
  /\ \E s \in Strategies : InitRun(s, {"perps/ubtc"}, MaxOpens, 0)

Next ==
  \/ StartRun
  \/ ExitStep
  \/ PlanEntry
  \/ OpenStep
  \/ EndRun

Spec == Init /\ [][Next]_vars

\* The markets of the runs with time passing: both for the strategies that
\* skip a denom they already trade, one for the others.
TimedMarkets(s) ==
  IF s \in {"MBF", "FSR", "YH", "VBH"} THEN Assets ELSE {"perps/ubtc"}

\* Runs with time passing between them.
InitTimed ==
  /\ call = NoCall
  /\ conc = NoConc
  /\ \E s \in Strategies : InitRun(s, TimedMarkets(s), MaxOpensTimed, MaxTicks)

NextTimed ==
  \/ Tick
  \/ StartRun
  \/ ExitStep
  \/ PlanEntry
  \/ OpenStep
  \/ EndRun

SpecTimed == InitTimed /\ [][NextTimed]_vars

\* Runs of each of the seven strategies on both markets, with positions
\* disappearing from the chain between runs.
InitAll ==
  /\ call = NoCall
  /\ conc = NoConc
  /\ \E s \in AllStrategies : InitRun(s, Assets, MaxOpensAll, 0)

NextAll ==
  \/ Liquidate
  \/ StartRun
  \/ ExitStep
  \/ PlanEntry
  \/ OpenStep
  \/ EndRun
  \/ LITStart
  \/ LITCloseAttempt
  \/ LITPlan
  \/ LITOpenAttempt

SpecAll == InitAll /\ [][NextAll]_vars

\* ------------------------------------------------------------------------
\* Funding-rate entries: findFundingRateOpportunities (FRA) and
\* findFundingOpportunities (Yield Harvester)
\* ------------------------------------------------------------------------

\* CONFIG.MIN_FUNDING_RATE_ENTRY / MIN_FUNDING_ENTRY, annualized percent
MIN_FUNDING_RATE_ENTRY == 15

\* CONFIG.MIN_OI_IMBALANCE in tenths: 1.2 in FRA, 1.3 in Yield Harvester
MIN_OI_IMBALANCE(s) == IF s = "FRA" THEN 12 ELSE 13

\* Annualized funding rates (percent) and open-interest values the Mars perps
\* contract can report for a market.
FundingRates == {-20, -15, -14, 0, 14, 15, 20}

OpenInterests == {0, 10, 12, 13, 20}

Abs(x) == IF x < 0 THEN -x ELSE x

\* oiImbalance as the fraction num / den: the larger side over the smaller
\* one, 1.0 when one side is empty.
oiImbalance(longOI, shortOI) ==
  IF longOI > 0 /\ shortOI > 0
    THEN IF longOI > shortOI
           THEN [num |-> longOI, den |-> shortOI]
           ELSE [num |-> shortOI, den |-> longOI]
    ELSE [num |-> 1, den |-> 1]

\* A plausible slip: the sign test of the direction is turned around.
fundingDirectionInverted(fundingRate) ==
  IF fundingRate > 0 THEN "long" ELSE "short"

\* const direction = fundingRate < 0 ? "long" : "short"
fundingDirection(fundingRate) ==
  IF fundingRate < 0 THEN "long" ELSE "short"

\* The opportunities found for one market: none when the funding rate or the
\* imbalance is below its threshold.
findFundingRateOpportunities(s, denom, fundingRate, longOI, shortOI) ==
  LET oi == oiImbalance(longOI, shortOI)
  IN IF Abs(fundingRate) < MIN_FUNDING_RATE_ENTRY
       THEN <<>>
       ELSE IF oi.num * 10 < MIN_OI_IMBALANCE(s) * oi.den
              THEN <<>>
              ELSE <<[denom |-> denom, fundingRate |-> fundingRate,
                      direction |-> fundingDirection(fundingRate),
                      oiNum |-> oi.num, oiDen |-> oi.den]>>

\* The payload the open loop builds: one asset with the whole allocation.
fundingAssets(opportunity) ==
  <<[denom |-> opportunity.denom,
     long |-> (opportunity.direction = "long"),
     percent |-> "1.0"]>>

\* One market examined by the opportunity search, and the position opened for
\* the opportunity it yields.
EvalFunding ==
  /\ strat \in {"FRA", "YH"}
  /\ \E denom \in Assets, fundingRate \in FundingRates,
        longOI \in OpenInterests, shortOI \in OpenInterests :
       LET found == findFundingRateOpportunities(strat, denom, fundingRate,
                                                 longOI, shortOI)
       IN eval' = [fn |-> "funding", denom |-> denom,
                   fundingRate |-> fundingRate,
                   longOI |-> longOI, shortOI |-> shortOI,
                   assets |-> IF found = <<>> THEN <<>>
                              ELSE fundingAssets(found[1])]
  /\ UNCHANGED <<call, shell, runVars, conc>>

InitFunding ==
  /\ call = NoCall
  /\ conc = NoConc
  /\ \E s \in {"FRA", "YH"} : InitRun(s, Assets, 0, 0)

NextFunding == EvalFunding

SpecFunding == InitFunding /\ [][NextFunding]_vars

\* ------------------------------------------------------------------------
\* The asset payload each strategy passes to openPosition
\* ------------------------------------------------------------------------

\* CONFIG.POSITION_MODE and CONFIG.DEFAULT_PAIR_ASSET of MBF
POSITION_MODE == "single"

DEFAULT_PAIR_ASSET == "perps/uusdc"

\* [{ denom, long, percent: "1.0" }]
singleAsset(denom, long) ==
  <<[denom |-> denom, long |-> long, percent |-> "1.0"]>>

\* A plausible slip: both legs of a pair get the whole allocation.
pairAssetsFull(first, second) ==
  <<[denom |-> first.denom, long |-> first.long, percent |-> "1.0"],
    [denom |-> second.denom, long |-> second.long, percent |-> "1.0"]>>

\* [{ ..., percent: "0.5" }, { ..., percent: "0.5" }]
pairAssets(first, second) ==
  <<[denom |-> first.denom, long |-> first.long, percent |-> "0.5"],
    [denom |-> second.denom, long |-> second.long, percent |-> "0.5"]>>

\* The second leg FSR and RMM pick: the first other opportunity (of opposite
\* direction in FSR), else the same asset in the opposite direction.
secondAsset(s, opp, opps) ==
  LET other == {i \in 1..Len(opps) :
                  /\ opps[i].denom # opp.denom
                  /\ (s = "FSR" => opps[i].long # opp.long)}
  IN IF other # {}
       THEN [denom |-> opps[Min(other)].denom, long |-> opps[Min(other)].long]
       ELSE [denom |-> opp.denom, long |-> ~opp.long]

\* The assets array built for one opportunity.
assetPayload(s, opp, opps) ==
  CASE s \in {"FSR", "RMM"} -> pairAssets(opp, secondAsset(s, opp, opps))
    [] s = "MBF" /\ POSITION_MODE # "single" ->
         pairAssets(opp, [denom |-> DEFAULT_PAIR_ASSET, long |-> TRUE])
    [] OTHER -> singleAsset(opp.denom, opp.long)

\* parseFloat of a percent string, in tenths
PercentTenths(percent) ==
  CASE percent = "1.0" -> 10
    [] percent = "0.5" -> 5
    [] OTHER -> 0

RECURSIVE SumPercent(_)
SumPercent(assets) ==
  IF assets = <<>> THEN 0
  ELSE PercentTenths(Head(assets).percent) + SumPercent(Tail(assets))

\* One iteration of an open loop up to the call of openPosition: the payload
\* for one of the opportunities of the ranked list.
EvalPayload ==
  \E opps \in SignalSeqs(Assets) :
    \E i \in 1..Len(opps) :
      /\ eval' = [fn |-> "payload", opportunities |-> opps, index |-> i,
                  assets |-> assetPayload(strat, opps[i], opps)]
      /\ UNCHANGED <<call, shell, runVars, conc>>

InitPayload ==
  /\ call = NoCall
  /\ conc = NoConc
  /\ \E s \in AllStrategies : InitRun(s, Assets, 0, 0)

NextPayload == EvalPayload

SpecPayload == InitPayload /\ [][NextPayload]_vars

\* Runs of the Liquidity Imbalance Tracker with time passing between them.
InitLIT ==
  /\ call = NoCall
  /\ conc = NoConc
  /\ InitRun("LIT", Assets, MaxOpensLIT, MaxTicks)

NextLIT ==
  \/ Tick
  \/ LITStart
  \/ LITCloseAttempt
  \/ LITPlan
  \/ LITOpenAttempt
  \/ EndRun

SpecLIT == InitLIT /\ [][NextLIT]_vars

\* ------------------------------------------------------------------------
\* Liquidity Imbalance Tracker: determineSide and findImbalanceOpportunities
\* ------------------------------------------------------------------------

\* CONFIG.MIN_FUNDING_RATE_THRESHOLD, annualized percent
MIN_FUNDING_RATE_THRESHOLD == 15

\* CONFIG.MIN_OI_RATIO_THRESHOLD
MIN_OI_RATIO_THRESHOLD == 2

\* calculateOIImbalance as the fraction num / den: the larger side over the
\* smaller one; the division by an empty side yields Infinity, 0 / 0 NaN.
calculateOIImbalance(longOI, shortOI) ==
  IF longOI > shortOI THEN [num |-> longOI, den |-> shortOI]
                      ELSE [num |-> shortOI, den |-> longOI]

\* imbalanceRatio >= k, with Infinity >= k true and NaN >= k false
RatioAtLeast(ratio, k) ==
  IF ratio.den = 0 THEN ratio.num > 0 ELSE ratio.num >= k * ratio.den

\* determineSide: "long", "short", or "none" for the null of no strong signal
determineSide(longOI, shortOI, fundingRate) ==
  CASE longOI > shortOI /\ fundingRate > -MIN_FUNDING_RATE_THRESHOLD -> "short"
    [] ~(longOI > shortOI /\ fundingRate > -MIN_FUNDING_RATE_THRESHOLD)
         /\ shortOI > longOI /\ fundingRate < MIN_FUNDING_RATE_THRESHOLD -> "long"
    [] OTHER ->
         IF fundingRate > MIN_FUNDING_RATE_THRESHOLD THEN "short"
         ELSE IF fundingRate < -MIN_FUNDING_RATE_THRESHOLD THEN "long"
         ELSE "none"

\* The opportunities found for one market.
findImbalanceOpportunities(denom, fundingRate, longOI, shortOI) ==
  LET imbalanceRatio == calculateOIImbalance(longOI, shortOI)
      positionSide == determineSide(longOI, shortOI, fundingRate)
  IN IF positionSide # "none"
          /\ RatioAtLeast(imbalanceRatio, MIN_OI_RATIO_THRESHOLD)
       THEN <<[denom |-> denom, isLong |-> (positionSide = "long")]>>
       ELSE <<>>

\* One market examined by findImbalanceOpportunities, and the payload
\* openNewPosition builds for the opportunity it yields.
EvalImbalance ==
  /\ strat = "LIT"
  /\ \E denom \in Assets, fundingRate \in FundingRates,
        longOI \in OpenInterests, shortOI \in OpenInterests :
       LET found == findImbalanceOpportunities(denom, fundingRate,
                                               longOI, shortOI)
       IN eval' = [fn |-> "imbalance", denom |-> denom,
                   fundingRate |-> fundingRate,
                   longOI |-> longOI, shortOI |-> shortOI,
                   assets |-> IF found = <<>> THEN <<>>
                              ELSE singleAsset(denom, found[1].isLong)]
  /\ UNCHANGED <<call, shell, runVars, conc>>

InitImbalance ==
  /\ call = NoCall
  /\ conc = NoConc
  /\ InitRun("LIT", Assets, 0, 0)

NextImbalance == EvalImbalance

SpecImbalance == InitImbalance /\ [][NextImbalance]_vars

\* ------------------------------------------------------------------------
\* Volatility Breakout Hunter: checkExitConditions
\* ------------------------------------------------------------------------

\* CONFIG.PROFIT_LOCK_THRESHOLD, TRAILING_STOP_INITIAL and STOP_LOSS_PERCENT
\* of VBH, in percent
PROFIT_LOCK_THRESHOLD == 6

TRAILING_STOP_INITIAL == 4

STOP_LOSS_PERCENT == 5

\* The entry price of the tracked position and the prices later samples can
\* show, chosen so that the PnL in percent is the difference to the entry.
EntryPrice == 100

SamplePrices == {90, 94, 95, 98, 100, 102, 103, 106, 108, 110}

\* Hours a position has been held when a run evaluates it.
HoldHours == {1, 49}

\* totalPnlPercent of a single-asset position, in percent
totalPnlPercent(long, entryPrice, currentPrice) ==
  LET priceChange == ((currentPrice - entryPrice) * 100) \div entryPrice
  IN IF long THEN priceChange ELSE -priceChange

\* A plausible slip: the trailing stop stays at break-even.
trailingStopLevelFlat(maxPnlReached) == 0

\* Math.max(0, maxPnlReached - CONFIG.TRAILING_STOP_INITIAL)
trailingStopLevel(maxPnlReached) ==
  Max({0, maxPnlReached - TRAILING_STOP_INITIAL})

\* checkExitConditions of VBH for a tracked position: the new recorded
\* maximum and the decision with its reason.
checkExitConditionsVBH(positionState, holdTimeHours, currentPrice) ==
  LET pnl == totalPnlPercent(positionState.long, positionState.entryPrice,
                             currentPrice)
      maxPnlReached == IF pnl > positionState.maxPnlReached
                         THEN pnl ELSE positionState.maxPnlReached
  IN IF holdTimeHours > MAX_POSITION_HOURS("VBH")
       THEN [shouldExit |-> TRUE, reason |-> "max_hold_time",
             maxPnlReached |-> positionState.maxPnlReached, pnl |-> pnl]
     ELSE IF pnl <= -STOP_LOSS_PERCENT
       THEN [shouldExit |-> TRUE, reason |-> "stop_loss",
             maxPnlReached |-> maxPnlReached, pnl |-> pnl]
     ELSE IF maxPnlReached >= PROFIT_LOCK_THRESHOLD
               /\ pnl <= trailingStopLevel(maxPnlReached)
       THEN [shouldExit |-> TRUE, reason |-> "trailing_stop",
             maxPnlReached |-> maxPnlReached, pnl |-> pnl]
     ELSE [shouldExit |-> FALSE, reason |-> "none",
           maxPnlReached |-> maxPnlReached, pnl |-> pnl]

\* VBH stores a newly opened position with maxPnlReached: 0.
TrackBreakout ==
  /\ strat = "VBH"
  /\ eval.fn = "none" \/ (eval.fn = "exit" /\ eval.shouldExit)
  /\ \E long \in BOOLEAN :
       eval' = [fn |-> "tracked", long |-> long, entryPrice |-> EntryPrice,
                maxPnlReached |-> 0]
  /\ UNCHANGED <<call, shell, runVars, conc>>

\* A run evaluates the tracked position: the recorded maximum before the
\* evaluation (recorded), the one saved by it, the PnL and the decision.
EvalExit ==
  /\ strat = "VBH"
  /\ eval.fn = "tracked" \/ (eval.fn = "exit" /\ ~eval.shouldExit)
  /\ \E holdTimeHours \in HoldHours, currentPrice \in SamplePrices :
       LET r == checkExitConditionsVBH(eval, holdTimeHours, currentPrice)
       IN eval' = [fn |-> "exit", long |-> eval.long,
                   entryPrice |-> eval.entryPrice,
                   recorded |-> eval.maxPnlReached,
                   maxPnlReached |-> r.maxPnlReached,
                   holdTimeHours |-> holdTimeHours, pnl |-> r.pnl,
                   shouldExit |-> r.shouldExit, reason |-> r.reason]
  /\ UNCHANGED <<call, shell, runVars, conc>>

InitTrailing ==
  /\ call = NoCall
  /\ conc = NoConc
  /\ InitRun("VBH", Assets, 0, 0)

NextTrailing ==
  \/ TrackBreakout
  \/ EvalExit

SpecTrailing == InitTrailing /\ [][NextTrailing]_vars

\* ------------------------------------------------------------------------
\* Volatility Breakout Hunter: updateBreakoutData
\* ------------------------------------------------------------------------

\* CONFIG.CONFIRMATION_CANDLES
CONFIRMATION_CANDLES == 2

\* The count of consecutive breakout samples the behaviours go up to.
MaxCandles == 4

\* The range of the preceding PRICE_RANGE_PERIODS samples and the prices the
\* newest sample can show.
RangeMins == {90, 100}

RangeMaxes == {100, 110}

BreakoutPrices == {85, 95, 100, 105, 110, 115}

\* The direction of the newest sample against the preceding range: "none"
\* stands for the null of no breakout.
breakoutDirection(currentPrice, priceRange) ==
  IF currentPrice > priceRange.max THEN "up"
  ELSE IF currentPrice < priceRange.min THEN "down"
  ELSE "none"

\* A plausible slip: a single breakout sample already confirms.
isConfirmedAtOnce(consecutiveCandles) == consecutiveCandles >= 1

\* consecutiveCandles >= CONFIG.CONFIRMATION_CANDLES
isConfirmed(consecutiveCandles) == consecutiveCandles >= CONFIRMATION_CANDLES

\* updateBreakoutData: the new activeSamples[denom] and the confirmed flag of
\* breakoutData[denom]. sample.exists tells whether activeSamples[denom] was
\* there before.
updateBreakoutData(sample, direction) ==
  IF ~sample.exists
    THEN [exists |-> TRUE,
          consecutiveCandles |-> IF direction # "none" THEN 1 ELSE 0,
          direction |-> direction, confirmed |-> FALSE]
  ELSE LET count == IF direction # "none" /\ direction = sample.direction
                      THEN sample.consecutiveCandles + 1
                    ELSE IF direction # "none" THEN 1
                    ELSE 0
       IN [exists |-> TRUE, consecutiveCandles |-> count,
           direction |-> direction, confirmed |-> isConfirmed(count)]

\* activeSamples[denom] before the first sample
NoSamples ==
  [exists |-> FALSE, consecutiveCandles |-> 0, direction |-> "none",
   confirmed |-> FALSE]

\* updateMarketData accepts a price sample and updates the breakout data of
\* the denom. prev and last are the directions of the two newest samples.
SampleBreakout ==
  /\ strat = "VBH"
  /\ \E min \in RangeMins, max \in RangeMaxes, currentPrice \in BreakoutPrices :
       LET priceRange == [min |-> min, max |-> max]
           direction == breakoutDirection(currentPrice, priceRange)
           old == IF eval.fn = "breakout" THEN eval.active ELSE NoSamples
           new == updateBreakoutData(old, direction)
       IN /\ new.consecutiveCandles <= MaxCandles
          /\ eval' = [fn |-> "breakout", active |-> new,
                      priceRange |-> priceRange, currentPrice |-> currentPrice,
                      samples |-> IF eval.fn = "breakout" /\ eval.samples >= 1
                                    THEN 2 ELSE 1,
                      prev |-> IF eval.fn = "breakout" THEN eval.last
                               ELSE "none",
                      last |-> direction]
  /\ UNCHANGED <<call, shell, runVars, conc>>

InitBreakout ==
  /\ call = NoCall
  /\ conc = NoConc
  /\ InitRun("VBH", Assets, 0, 0)

NextBreakout == SampleBreakout

SpecBreakout == InitBreakout /\ [][NextBreakout]_vars

\* ------------------------------------------------------------------------
\* The runner scripts: run-yield.sh, run-vbh.sh, run-fsr.sh, run-rmm.sh
\* ------------------------------------------------------------------------

\* The strategies that have a runner script, and the script of each.
RunnerStrategies == {"YH", "VBH", "FSR", "RMM"}

runnerScript(s) ==
  CASE s = "YH" -> "run-yield.sh"
    [] s = "VBH" -> "run-vbh.sh"
    [] s = "FSR" -> "run-fsr.sh"
    [] OTHER -> "run-rmm.sh"

\* INTERVAL, the execution times of a run and the exit statuses of node, in
\* small numbers.
Intervals == {1, 2}

ExecutionTimes == 0 .. 3

ExitCodes == {0, 1}

\* The children a runner is let to have at once.
MaxChildren == 2

\* Every runner calls node in the foreground: the pipeline "node ... | tee"
\* carries no "&", so the shell waits for it.
invocation(script) == "foreground"

\* A plausible slip: set -e, or "run_strategy || exit", ends the loop on a
\* failed run.
afterRunErrexit(script, exit_code) ==
  IF exit_code # 0 THEN "stopped" ELSE "sleep"

\* What the script does after node has exited: run_strategy reports and
\* returns the status, which the loop does not test.
afterRun(script, exit_code) == "sleep"

\* run-vbh.sh sleeps for what is left of the interval, the others for the
\* whole interval.
sleepTime(script, interval, executionTime) ==
  IF script = "run-vbh.sh"
    THEN IF interval - executionTime <= 0 THEN 0
         ELSE interval - executionTime
  ELSE interval

\* The user launches the runner of the strategy, with INTERVAL set or not.
LaunchRunner ==
  /\ shell.script = "none"
  /\ \E i \in Intervals :
       shell' = [NoShell EXCEPT !.script = runnerScript(strat),
                                !.interval = i, !.pc = "start"]
  /\ UNCHANGED <<call, eval, runVars, conc>>

\* run_strategy: node strategies/<strategy>.js
StartStrategy ==
  /\ shell.pc = "start"
  /\ shell.running < MaxChildren
  /\ shell' = [shell EXCEPT
       !.running = @ + 1,
       !.overlapped = shell.running > 0,
       !.pc = IF invocation(shell.script) = "foreground" THEN "wait"
              ELSE "sleep"]
  /\ UNCHANGED <<call, eval, runVars, conc>>

\* The node process exits with some status after some time.
StrategyExits ==
  /\ shell.running > 0
  /\ \E code \in ExitCodes, t \in ExecutionTimes :
       shell' = [shell EXCEPT
         !.running = @ - 1,
         !.exit_code = code,
         !.executionTime = t,
         !.pc = IF shell.pc = "wait" THEN afterRun(shell.script, code)
                ELSE @]
  /\ UNCHANGED <<call, eval, runVars, conc>>

\* sleep $INTERVAL, or sleep $SLEEP_TIME, and the loop starts over.
SleepInterval ==
  /\ shell.pc = "sleep"
  /\ shell' = [shell EXCEPT
       !.slept = sleepTime(shell.script, shell.interval, shell.executionTime),
       !.pc = "start"]
  /\ UNCHANGED <<call, eval, runVars, conc>>

InitRunner ==
  /\ call = NoCall
  /\ conc = NoConc
  /\ \E s \in RunnerStrategies : InitRun(s, Assets, 0, 0)

NextRunner ==
  \/ LaunchRunner
  \/ StartStrategy
  \/ StrategyExits
  \/ SleepInterval

SpecRunner == InitRunner /\ [][NextRunner]_vars

\* sleep ends and the shell goes on to its next command; nothing makes a
\* strategy run end.
SpecRunnerLive ==
  SpecRunner /\ WF_vars(SleepInterval) /\ WF_vars(StartStrategy)

\* ------------------------------------------------------------------------
\* Loading a strategy module: test-strategies.sh and the modules' last lines
\* ------------------------------------------------------------------------

\* The modules test_strategy is called on, in the order of the script.
TestedStrategies == <<"FRA", "MBF", "YH", "VBH", "FSR">>

\* The SDK calls and the writes of the state file a strategy run can make.
SdkCalls == {1, 2}

StateWrites == {0, 1}

\* A plausible slip: the entry function is called on the module's last line
\* without a test, as rmm-strategy.js does.
hasMainGuardNone(s) == FALSE

\* Whether the call of the entry function stands under
\* "if (require.main === module)".
hasMainGuard(s) == s \notin {"RMM", "LIT"}

\* The statements at the top level of a strategy module and of lib.js:
\* dotenv's config, the require calls, the CONFIG literal, chains.find. None
\* throws, none calls the SDK, none writes a file.
topLevelThrows(s) == FALSE

\* Whether loading the module s invokes its entry function.
entersRun(s, asMain) == asMain \/ ~hasMainGuard(s)

\* Node loads the module s, as the main module or through require. A run the
\* load starts makes SDK calls and may write the state file.
LoadRecord(s, asMain, calls, writes) ==
  [fn |-> "load", file |-> s, asMain |-> asMain,
   threw |-> topLevelThrows(s),
   entered |-> ~topLevelThrows(s) /\ entersRun(s, asMain),
   sdkCalls |-> IF ~topLevelThrows(s) /\ entersRun(s, asMain) THEN calls
                ELSE 0,
   stateWrites |-> IF ~topLevelThrows(s) /\ entersRun(s, asMain) THEN writes
                   ELSE 0]

\* The user launches test-strategies.sh: failures=0.
LaunchTests ==
  /\ shell.script = "none"
  /\ shell' = [NoShell EXCEPT !.script = "test-strategies.sh", !.pc = 1]
  /\ UNCHANGED <<call, eval, runVars, conc>>

\* test_strategy: node -e "try { require(file) } catch { process.exit(1) }",
\* and failures++ when the status is not 0.
TestStrategy ==
  /\ shell.script = "test-strategies.sh"
  /\ shell.pc <= Len(TestedStrategies)
  /\ \E calls \in SdkCalls, writes \in StateWrites :
       LET load == LoadRecord(TestedStrategies[shell.pc], FALSE, calls, writes)
       IN /\ eval' = load
          /\ shell' = [shell EXCEPT
               !.pc = @ + 1,
               !.exit_code = IF load.threw THEN 1 ELSE 0,
               !.failures = IF load.threw THEN @ + 1 ELSE @]
  /\ UNCHANGED <<call, runVars, conc>>

\* node strategies/<strategy>.js: the module is the main module.
ExecuteStrategy ==
  /\ \E s \in AllStrategies, calls \in SdkCalls, writes \in StateWrites :
       eval' = LoadRecord(s, TRUE, calls, writes)
  /\ UNCHANGED <<call, shell, runVars, conc>>

InitLoad ==
  /\ call = NoCall
  /\ conc = NoConc
  /\ \E s \in AllStrategies : InitRun(s, Assets, 0, 0)

NextLoad ==
  \/ LaunchTests
  \/ TestStrategy
  \/ ExecuteStrategy

SpecLoad == InitLoad /\ [][NextLoad]_vars

\* ------------------------------------------------------------------------
\* Runs that go on for ever
\* ------------------------------------------------------------------------

\* A step of a run, as opposed to a step of the environment.
RunStep ==
  \/ StartRun
  \/ ExitStep
  \/ PlanEntry
  \/ OpenStep
  \/ EndRun
  \/ LITStart
  \/ LITCloseAttempt
  \/ LITPlan
  \/ LITOpenAttempt

\* The runner script starts run after run and every run goes on to its end.
SpecAllLive == SpecAll /\ WF_vars(RunStep)

\* Tracked positions that are no longer open on-chain.
StalePositions == TrackedIds(file) \ ChainIds

\* ------------------------------------------------------------------------
\* Positions of the same wallet that the strategy did not open
\* ------------------------------------------------------------------------

\* Positions opened on-chain in one behaviour, by the strategy or not.
MaxOpensForeign == 3

\* Another strategy, or the user by hand, opens a position with the wallet.
\* The contract numbers it like any other.
ForeignOpen ==
  /\ nextId <= budget.opens
  /\ \E a \in Assets :
       chain' = chain \cup {[id |-> nextId, assets |-> {a}, by |-> "hand"]}
  /\ nextId' = nextId + 1
  /\ UNCHANGED <<call, eval, shell, conc, strat, markets, now, ticks, budget,
                 file, history, mem, pc, queue, scan, plan, slots, opened,
                 active, depth, attempts, lastCloseAt, runLog>>

\* openNewPosition up to the end of its retry loop: one iteration of
\* "while (!openResult && attempts < RETRY_MAX_ATTEMPTS)". After a success the
\* position id has still to be found.
LITOpenTx ==
  /\ pc = "opens"
  /\ strat = "LIT"
  /\ plan # <<>>
  /\ nextId <= budget.opens
  /\ \E out \in ChainOutcomes :
       LET opp == Head(plan)
           r == openPosition(out)
           onChain == r.result = "tx"
           again == ~onChain /\ attempts + 1 < RETRY_MAX_ATTEMPTS
           listed == blacklistAssets(strat, loadBlacklist(file, now),
                                     {opp.denom}, now)
       IN /\ chain' = IF onChain
                        THEN chain \cup {[id |-> nextId, assets |-> opp.assets,
                                          by |-> strat]}
                        ELSE chain
          /\ nextId' = IF onChain THEN nextId + 1 ELSE nextId
          /\ runLog' = [runLog EXCEPT
                          !.openCalls = @ + 1,
                          !.openOk = @ \/ onChain,
                          !.openedId = IF onChain THEN nextId ELSE @]
          /\ attempts' = IF again THEN attempts + 1 ELSE 0
          /\ pc' = IF onChain THEN "identify" ELSE pc
          /\ plan' = IF again \/ onChain THEN plan ELSE <<>>
          /\ file' = IF ~onChain /\ ~again THEN listed ELSE file
  /\ UNCHANGED <<call, eval, shell, conc, strat, markets, now, ticks, budget,
                 history, mem, queue, scan, slots, opened, active, depth,
                 lastCloseAt>>

\* openNewPosition after the retry loop: the position id is read from the
\* events of the result; when it is not there, getPositions is called and the
\* position with the highest id is taken.
LITIdentify ==
  /\ pc = "identify"
  /\ strat = "LIT"
  /\ \E idFound, positionsOk \in BOOLEAN :
       LET opp == Head(plan)
           positions == IF positionsOk THEN ChainIds ELSE {}
           tracked == idFound \/ positions # {}
           id == IF idFound THEN runLog.openedId ELSE Max(positions)
       IN file' = IF tracked
                    THEN saveState(file, StorePosition(file, id, opp.assets, now))
                    ELSE file
  /\ pc' = "opens"
  /\ plan' = <<>>
  /\ UNCHANGED <<call, eval, shell, conc, strat, markets, now, ticks, budget,
                 chain, nextId, history, mem, queue, scan, slots, opened,
                 active, depth, attempts, lastCloseAt, runLog>>

InitForeign ==
  /\ call = NoCall
  /\ conc = NoConc
  /\ \E s \in AllStrategies : InitRun(s, Assets, MaxOpensForeign, 0)

NextForeign ==
  \/ ForeignOpen
  \/ StartRun
  \/ ExitStep
  \/ PlanEntry
  \/ OpenStep
  \/ EndRun
  \/ LITStart
  \/ LITCloseAttempt
  \/ LITPlan
  \/ LITOpenTx
  \/ LITIdentify

SpecForeign == InitForeign /\ [][NextForeign]_vars

\* ------------------------------------------------------------------------
\* The position limit over many runs
\* ------------------------------------------------------------------------

\* Positions opened on-chain in one behaviour: enough to fill the tracked
\* state and to open again.
MaxOpensLimit == 4

\* The strategies whose open loops differ: FRA cuts the opportunities to the
\* free slots, VBH counts the positions it tracked, LIT opens one.
LimitStrategies == {"FRA", "VBH", "LIT"}

\* Runs on both markets.
InitLimit ==
  /\ call = NoCall
  /\ conc = NoConc
  /\ \E s \in LimitStrategies : InitRun(s, Assets, MaxOpensLimit, 0)

NextLimit ==
  \/ StartRun
  \/ ExitStep
  \/ PlanEntry
  \/ OpenStep
  \/ EndRun
  \/ LITStart
  \/ LITCloseAttempt
  \/ LITPlan
  \/ LITOpenAttempt

SpecLimit == InitLimit /\ [][NextLimit]_vars

\* The positions the run in progress has opened on-chain, and the slots that
\* were free when its open loop began.
OpenedInRun == nextId - runLog.startId

FreeSlots ==
  MAX_POSITIONS - Cardinality({p \in file.positions : p.id < runLog.startId})

\* ------------------------------------------------------------------------
\* lib.js: tryCache and the getters built on it
\* ------------------------------------------------------------------------

\* consts.js, in milliseconds
PRICE_CACHE_TIME == 1000 * 30

MARKET_CACHE_TIME == 1000 * 60 * 60 * 1

MAX_LEVERAGE_CACHE_TIME == 1000 * 60 * 60 * 48

FUNDING_RATE_CACHE_TIME == 1000 * 60 * 5

Getters == {"getMarkets", "getMaxLeverages", "getFundingRates", "getPrices"}

\* The cacheTime each getter hands to tryCache.
cacheTimeOf(getter) ==
  CASE getter = "getMarkets" -> MARKET_CACHE_TIME
    [] getter = "getMaxLeverages" -> MAX_LEVERAGE_CACHE_TIME
    [] getter = "getFundingRates" -> FUNDING_RATE_CACHE_TIME
    [] OTHER -> PRICE_CACHE_TIME

\* "result.data || []", and "result.data || {}" in getPrices
emptyDefault(getter) == IF getter = "getPrices" THEN "{}" ELSE "[]"

\* Calls of one getter in one behaviour.
MaxGetterCalls == 3

\* Date.now() at the first call.
StartTime == 1

\* A cache file: absent, a file that is not valid JSON, or the JSON of
\* { lastUpdated, data }. lastUpdated 0 stands for a missing lastUpdated;
\* data is named by the time it was fetched at, 0 standing for null.
AbsentFile == [kind |-> "absent", lastUpdated |-> 0, data |-> 0]

CorruptFile == [kind |-> "corrupt", lastUpdated |-> 0, data |-> 0]

JsonFile(lastUpdated, data) ==
  [kind |-> "json", lastUpdated |-> lastUpdated, data |-> data]

\* The cache files a first call can find.
CacheFiles ==
  {AbsentFile, CorruptFile, JsonFile(0, StartTime),
   JsonFile(StartTime, StartTime)}

\* A plausible slip: the age test is left out, so a cache file is served for
\* ever.
isFreshAlways(cachedData, t, cacheTime) == cachedData.lastUpdated # 0

\* cachedData.lastUpdated && now - cachedData.lastUpdated < cacheTime
isFresh(cachedData, t, cacheTime) ==
  cachedData.lastUpdated # 0 /\ t - cachedData.lastUpdated < cacheTime

\* A plausible slip: the catch block gives up without reading the expired
\* cache.
expiredFallbackNone(cache) == [fromCache |-> FALSE, error |-> TRUE, data |-> 0]

\* The catch block of tryCache: the data of a cache file that can be parsed,
\* else null.
expiredFallback(cache) ==
  IF cache.kind = "json"
    THEN [fromCache |-> TRUE, error |-> FALSE, data |-> cache.data]
    ELSE [fromCache |-> FALSE, error |-> TRUE, data |-> 0]

\* tryCache at time t, with the outcome of the fetch and of writeFileSync. The
\* JSON.parse of the try block throws on a corrupt file before the fetch is
\* reached. The result, the calls of fetchDataFn and the cache file afterwards.
tryCache(cache, cacheTime, t, fetchOk, writeOk) ==
  IF cache.kind = "corrupt"
    THEN [result |-> expiredFallback(cache), fetchCalls |-> 0, after |-> cache]
  ELSE IF cache.kind = "json" /\ isFresh(cache, t, cacheTime)
    THEN [result |-> [fromCache |-> TRUE, error |-> FALSE, data |-> cache.data],
          fetchCalls |-> 0, after |-> cache]
  ELSE IF fetchOk /\ writeOk
    THEN [result |-> [fromCache |-> FALSE, error |-> FALSE, data |-> t],
          fetchCalls |-> 1, after |-> JsonFile(t, t)]
  ELSE [result |-> expiredFallback(cache), fetchCalls |-> 1, after |-> cache]

\* One call of a getter: some time after the call before, the chain answers
\* or not, and the file system takes the write or not.
CallGetter ==
  /\ \E getter \in Getters, first \in CacheFiles,
        fetchOk, writeOk \in BOOLEAN :
       \E d \in {1, cacheTimeOf(getter) - 1, cacheTimeOf(getter)} :
         LET began == eval.fn = "tryCache"
             cache == IF began THEN eval.after ELSE first
             t == IF began THEN eval.t + d ELSE StartTime + d
             r == tryCache(cache, cacheTimeOf(getter), t, fetchOk, writeOk)
             used == r.fetchCalls > 0
         IN /\ began => (getter = eval.getter /\ eval.calls < MaxGetterCalls)
            /\ eval' = [fn |-> "tryCache", getter |-> getter, t |-> t,
                        calls |-> IF began THEN eval.calls + 1 ELSE 1,
                        before |-> cache, after |-> r.after,
                        fetchCalls |-> r.fetchCalls,
                        fetchOk |-> used /\ fetchOk,
                        writeOk |-> used /\ fetchOk /\ writeOk,
                        result |-> r.result,
                        value |-> IF r.result.data = 0
                                    THEN emptyDefault(getter) ELSE "data",
                        rewritten |-> (began /\ eval.rewritten)
                                        \/ r.after # cache]
  /\ UNCHANGED <<call, shell, runVars, conc>>

InitCache ==
  /\ call = NoCall
  /\ conc = NoConc
  /\ InitRun("FRA", Assets, 0, 0)

NextCache == CallGetter

SpecCache == InitCache /\ [][NextCache]_vars

\* ------------------------------------------------------------------------
\* Properties
\* ------------------------------------------------------------------------

\* C1: openPosition and closePosition of lib.js never throw; whenever the
\* contract execution fails (a sequence mismatch included) they return null,
\* and they return the transaction result only when the execution succeeded.
C1_LibNeverThrows ==
  call.op # "none" =>
    /\ ~call.libThrew
    /\ call.outs[1] = "ok" => call.libResult = "tx"
    /\ call.outs[1] # "ok" => call.libResult = "null"

\* C1 witness: a close whose execution failed with a sequence mismatch and
\* came back as null.
C1_Witness ==
  /\ call.op = "close"
  /\ call.outs[1] = "seq_mismatch"
  /\ call.libResult = "null"
  /\ ~call.libThrew

\* The number of lib.js calls a wrapper makes when it retries on sequence
\* mismatches, at most twice.
ExpectedCalls(outs) ==
  IF outs[1] # "seq_mismatch" THEN 1
  ELSE IF outs[2] # "seq_mismatch" THEN 2 ELSE MaxAttempts

\* C2: when the execution fails with "account sequence mismatch", the
\* strategy's wrapper waits 10 seconds, refreshes the client and retries, at
\* most twice (three attempts in total).
C2_WrapperRetries ==
  call.op # "none" =>
    /\ call.calls = ExpectedCalls(call.outs)
    /\ call.waited = (call.calls - 1) * RETRY_WAIT_SECONDS
    /\ call.refreshes = call.calls - 1

\* C3: the positions the strategy opened that are open on-chain at the same
\* time never number more than MAX_POSITIONS.
C3_OpenWithinLimit == Cardinality(chain) <= MAX_POSITIONS

\* The position the contract created in this step, if any.
Opening == nextId' # nextId

NewPosition == CHOOSE p \in chain' : p.id = nextId

\* C4: in FRA, Yield Harvester, FSR and MBF a position is opened on an asset
\* only if the strategy closed no position on that asset during the last
\* BLACKLIST_HOURS hours, however many runs lie in between.
C4_CooldownRespected ==
  [][(Opening /\ strat \in CooldownStrategies) =>
       \A a \in NewPosition.assets :
          \/ lastCloseAt[a] = NoEntry
          \/ now - lastCloseAt[a] >= BLACKLIST_HOURS(strat)]_vars

\* C4 witness: a tracked position on an asset the strategy had closed a
\* position on, opened once the cooldown was over.
C4_Witness ==
  /\ strat \in CooldownStrategies
  /\ \E p \in file.positions : \E a \in p.assets :
       /\ lastCloseAt[a] # NoEntry
       /\ p.createdAt >= lastCloseAt[a] + BLACKLIST_HOURS(strat)

\* C5: a run that finds a tracked position open on-chain and held longer than
\* the maximum hold time issues a closePosition call for it.
C5_OverdueClosed ==
  pc = "idle" => runLog.overdue \subseteq runLog.closeCalls

\* C6: MBF and VBH never have two open positions that contain the same asset.
C6_OnePositionPerAsset ==
  strat \in {"MBF", "VBH"} =>
    \A p, q \in chain : p # q => p.assets \cap q.assets = {}

\* C7: in RMM and FSR no asset appears in more than one position the strategy
\* holds, positions opened within one run included.
C7_OneHeldPerAsset ==
  strat \in {"RMM", "FSR"} =>
    \A p, q \in file.positions : p # q => p.assets \cap q.assets = {}

\* C8: in RMM the run that closed a position opens no new position on any of
\* its assets.
C8_NoReentry == strat = "RMM" => ~runLog.reentered

\* A quantity that is never negative and that every step of a run lowers.
RunMeasure ==
  CASE pc = "exits" -> 100 + 10 * Len(queue) + (RETRY_MAX_ATTEMPTS - attempts)
                         + (1 - depth)
    [] pc = "opens" -> 10 * Len(plan) + (RETRY_MAX_ATTEMPTS - attempts)
    [] OTHER -> 0

\* C9: every run ends after finitely many steps and without an uncaught
\* exception: each step of a run lowers RunMeasure, the retry loops stay below
\* RETRY_MAX_ATTEMPTS and the opportunity search of RMM recurses at most once.
C9_RunTerminates ==
  [][/\ (pc # "idle" /\ pc' # "idle") => RunMeasure' < RunMeasure
     /\ RunMeasure' >= 0
     /\ depth' <= 1
     /\ attempts' < RETRY_MAX_ATTEMPTS
     /\ ~runLog'.uncaught]_vars

\* C9 witness: the opportunity search of RMM has recursed once.
C9_Witness == strat = "RMM" /\ pc = "exits" /\ depth = 1

\* C10: a write puts the writer's own state object into the file, whatever
\* another run wrote since the writer loaded it: nothing is locked or merged.
C10_LastWriterWins ==
  conc.writer # 0 => file = conc.local[conc.writer]

\* C10 witness: a position one run tracked and saved is gone from the file
\* after the other run's later write.
C10_Witness ==
  /\ conc.lost # {}
  /\ \E r \in Runs : conc.lost \subseteq conc.seen[r]

\* C11: under sequential runs the trade history is append-only: every step
\* leaves the entries recorded so far unchanged and in the same order and adds
\* at most one new entry at the end.
C11_HistoryAppendOnly ==
  [][/\ Len(history') \in {Len(history), Len(history) + 1}
     /\ SubSeq(history', 1, Len(history)) = history]_vars

\* C11 witness: recordTrade has run on a history file that already held an
\* open and a close record.
C11_Witness ==
  /\ Len(history) >= 3
  /\ history[1].action = "open"
  /\ history[2].action = "close"

\* C12: a position opened by FRA or Yield Harvester is long exactly when the
\* funding rate used for the decision is negative and short exactly when it is
\* positive, and it is opened only when the absolute funding rate is at least
\* 15 and the open-interest imbalance is at least 1.2 (FRA) or 1.3 (Yield
\* Harvester).
C12_FundingEntry ==
  (eval.fn = "funding" /\ eval.assets # <<>>) =>
    LET a == eval.assets[1]
        hi == IF eval.longOI > eval.shortOI THEN eval.longOI ELSE eval.shortOI
        lo == IF eval.longOI > eval.shortOI THEN eval.shortOI ELSE eval.longOI
    IN /\ a.long <=> eval.fundingRate < 0
       /\ ~a.long <=> eval.fundingRate > 0
       /\ Abs(eval.fundingRate) >= MIN_FUNDING_RATE_ENTRY
       /\ lo > 0
       /\ hi * 10 >= MIN_OI_IMBALANCE(strat) * lo

\* C12 witness: Yield Harvester opens a short on a market whose funding rate
\* sits on the entry threshold and whose imbalance sits on the minimum.
C12_Witness ==
  /\ eval.fn = "funding"
  /\ strat = "YH"
  /\ eval.fundingRate = 15
  /\ eval.longOI = 13 /\ eval.shortOI = 10
  /\ eval.assets # <<>>
  /\ ~eval.assets[1].long

\* C13: every asset payload passed to openPosition is a non-empty list whose
\* percent fields are strings that sum to exactly 1.0.
C13_PercentSum ==
  eval.fn = "payload" =>
    /\ Len(eval.assets) >= 1
    /\ \A i \in 1..Len(eval.assets) :
          eval.assets[i].percent \in {"1.0", "0.5"}
    /\ SumPercent(eval.assets) = 10

\* C13 witness: FSR pairs the opportunity with the other one of the list,
\* half of the allocation each.
C13_Witness ==
  /\ eval.fn = "payload"
  /\ strat = "FSR"
  /\ Len(eval.assets) = 2
  /\ eval.assets[1].denom # eval.assets[2].denom
  /\ eval.assets[1].percent = "0.5"

\* C14: within one run, no openPosition call follows an earlier openPosition
\* call of the same run without a delay in between.
C14_DelayBetweenOpens == ~runLog.undelayed

\* C15: openNewPosition of LIT calls openPosition at most RETRY_MAX_ATTEMPTS
\* times, makes no further call once a call returned a result and waits
\* RETRY_DELAY before each retry; when every attempt returned null the asset
\* is blacklisted for 6 hours and no position is added to the state; no
\* position is opened on an asset whose blacklist entry has not expired.
C15_LITOpenRetries ==
  [][strat = "LIT" =>
       LET called == runLog'.openCalls > runLog.openCalls
           denom == Head(plan).denom
       IN /\ runLog'.openCalls <= RETRY_MAX_ATTEMPTS
          /\ called => ~runLog.openOk /\ ~runLog'.undelayed
          /\ (called /\ ~runLog'.openOk
                /\ runLog'.openCalls = RETRY_MAX_ATTEMPTS) =>
                /\ file'.blacklist[denom] = now + BLACKLIST_HOURS("LIT")
                /\ file'.positions = file.positions
          /\ (called /\ ~runLog'.openOk
                /\ runLog'.openCalls < RETRY_MAX_ATTEMPTS) =>
                /\ plan' = plan
                /\ file' = file
          /\ Opening =>
                \A a \in NewPosition.assets :
                   file.blacklist[a] = NoEntry \/ file.blacklist[a] < now]_vars

\* C15 witness: three attempts on one asset all returned null and the asset
\* is blacklisted for the next 6 hours.
C15_Witness ==
  /\ strat = "LIT"
  /\ runLog.openCalls = RETRY_MAX_ATTEMPTS
  /\ ~runLog.openOk
  /\ \E a \in Assets : file.blacklist[a] = now + BLACKLIST_HOURS("LIT")

\* C16: LIT opens a position on an asset only when the open-interest ratio is
\* at least 2.0 and the funding rate supports the contrarian side with a
\* magnitude above 15: a long against a short crowd with funding below -15, a
\* short against a long crowd with funding above 15.
C16_ImbalanceEntry ==
  (eval.fn = "imbalance" /\ eval.assets # <<>>) =>
    LET a == eval.assets[1]
    IN /\ RatioAtLeast(calculateOIImbalance(eval.longOI, eval.shortOI),
                       MIN_OI_RATIO_THRESHOLD)
       /\ Abs(eval.fundingRate) > MIN_FUNDING_RATE_THRESHOLD
       /\ a.long => eval.shortOI > eval.longOI /\ eval.fundingRate < 0
       /\ ~a.long => eval.longOI > eval.shortOI /\ eval.fundingRate > 0

C18_BreakoutConfirmation ==
  eval.fn = "breakout" =>
    /\ eval.active.confirmed =>
          /\ eval.samples >= CONFIRMATION_CANDLES
          /\ eval.last # "none"
          /\ eval.prev = eval.last
          /\ eval.active.consecutiveCandles >= CONFIRMATION_CANDLES
    /\ eval.last = "none" => eval.active.consecutiveCandles = 0
    /\ (eval.last # "none" /\ eval.prev # "none" /\ eval.prev # eval.last) =>
          eval.active.consecutiveCandles = 1

\* C18 witness: a down breakout followed by two up breakouts: the count was
\* reset to 1 and the second up sample confirms.
C18_Witness ==
  /\ eval.fn = "breakout"
  /\ eval.active.confirmed
  /\ eval.active.consecutiveCandles = CONFIRMATION_CANDLES
  /\ eval.last = "up"

\* C19: a runner script never starts a strategy run while the run it started
\* before is still executing, and a run that has exited, whatever its exit
\* status, is followed by the start of the next run: a failed run does not
\* stop the loop.
C19_RunnerLoop ==
  /\ [](/\ shell.running <= 1
        /\ ~shell.overlapped
        /\ shell.pc # "stopped")
  /\ ((shell.pc = "sleep") ~> (shell.pc = "wait"))

\* C19 witness: the run before exited with a failure and the next run is
\* executing.
C19_Witness ==
  /\ shell.pc = "wait"
  /\ shell.running = 1
  /\ shell.exit_code = 1

\* C20: requiring any of the five strategy modules listed in
\* test-strategies.sh completes without throwing and starts no strategy run:
\* the entry function is invoked only when the file is the main module, so a
\* load through require makes no SDK call and writes no state file.
C20_LoadStartsNoRun ==
  (/\ eval.fn = "load"
   /\ \E i \in 1 .. Len(TestedStrategies) : TestedStrategies[i] = eval.file) =>
    /\ ~eval.threw
    /\ eval.entered <=> eval.asMain
    /\ ~eval.asMain => (eval.sdkCalls = 0 /\ eval.stateWrites = 0)

\* C20 witness: test-strategies.sh has required its last module and counted
\* no failure.
C20_Witness ==
  /\ shell.script = "test-strategies.sh"
  /\ shell.pc = Len(TestedStrategies) + 1
  /\ eval.fn = "load"
  /\ eval.file = "FSR"
  /\ ~eval.asMain
  /\ ~eval.entered

\* C21: after a close attempt a position leaves the tracked state, and a
\* "close" trade is recorded, only if closePosition returned a result: a
\* position whose close failed is still open on-chain and stays tracked.
C21_FailedCloseStaysTracked ==
  [][\A id \in TrackedIds(file) :
       (pc = "exits" /\ id \notin TrackedIds(file')) =>
          id \notin {p.id : p \in chain'}]_vars

\* C22: in MBF and Yield Harvester the state cleanup at the start of a run
\* never drops a tracked position that is still open on-chain, whatever the
\* getPositions query returned.
C22_CleanupKeepsOpen ==
  [][(strat \in {"MBF", "YH"} /\ pc = "idle") =>
       \A id \in TrackedIds(file) \cap ChainIds : id \in TrackedIds(file')]_vars

\* C23: in FRA, FSR, RMM and VBH a tracked position that has disappeared
\* on-chain is eventually removed from the strategy's state by a later run.
C23_StaleRemoved ==
  (strat \in {"FRA", "FSR", "RMM", "VBH"} /\ StalePositions # {})
    ~> (StalePositions = {})

\* C24: a strategy calls closePosition only for positions it opened itself:
\* a position of the wallet that another strategy or the user opened is never
\* closed, in LIT too when the id of a new position comes from the on-chain
\* position list.
C24_ClosesOnlyOwn ==
  [][\A id \in runLog'.closeCalls \ runLog.closeCalls :
       \A p \in chain : p.id = id => p.by = strat]_vars

\* C25: the tracked state never holds more than MAX_POSITIONS positions: a
\* run opens at most MAX_POSITIONS minus the tracked count new positions, LIT
\* at most one per run, and none when the tracked count has reached the limit.
C25_PositionLimit ==
  /\ Cardinality(file.positions) <= MAX_POSITIONS
  /\ pc = "opens" =>
       /\ OpenedInRun <= FreeSlots
       /\ strat = "LIT" => OpenedInRun <= 1

\* C26: tryCache returns the cached data without a fetch exactly
\* when the cache file exists and its lastUpdated is less than cacheTime old;
\* otherwise it calls the fetch once and, when the fetch succeeds, overwrites
\* the cache file with the fresh data and the current time and returns the
\* fresh data.
C26_CacheOrFetchStated ==
  eval.fn = "tryCache" =>
    LET fresh == /\ eval.before.kind = "json"
                 /\ eval.before.lastUpdated # 0
                 /\ eval.t - eval.before.lastUpdated < cacheTimeOf(eval.getter)
    IN IF fresh
         THEN /\ eval.fetchCalls = 0
              /\ eval.result.data = eval.before.data
         ELSE /\ eval.fetchCalls = 1
              /\ eval.fetchOk =>
                   /\ eval.after = JsonFile(eval.t, eval.t)
                   /\ eval.result.data = eval.t

\* C26 on the cache files it holds for: the same for a cache file that is
\* absent or holds valid JSON, and a fetch whose result could be written; on
\* a cache file that is not valid JSON the fetch is never called and the
\* data is null.
C26_CacheOrFetch ==
  eval.fn = "tryCache" =>
    LET fresh == /\ eval.before.kind = "json"
                 /\ eval.before.lastUpdated # 0
                 /\ eval.t - eval.before.lastUpdated < cacheTimeOf(eval.getter)
    IN CASE eval.before.kind = "corrupt" ->
              /\ eval.fetchCalls = 0
              /\ eval.result.data = 0
              /\ eval.after = eval.before
         [] fresh ->
              /\ eval.fetchCalls = 0
              /\ eval.result.data = eval.before.data
              /\ eval.after = eval.before
         [] OTHER ->
              /\ eval.fetchCalls = 1
              /\ eval.writeOk =>
                   /\ eval.after = JsonFile(eval.t, eval.t)
                   /\ eval.result.data = eval.t

\* C26 witness: a cache file one millisecond short of its cacheTime was
\* served, and the call after it fetched and rewrote the file.
C26_Witness ==
  /\ eval.fn = "tryCache"
  /\ eval.calls = 2
  /\ eval.before.kind = "json"
  /\ eval.before.lastUpdated = StartTime
  /\ eval.t - eval.before.lastUpdated = cacheTimeOf(eval.getter)
  /\ eval.fetchCalls = 1
  /\ eval.after = JsonFile(eval.t, eval.t)

\* C27: when the fetch inside tryCache throws, no exception escapes: the
\* expired data of a readable cache file is returned and the file is left
\* unchanged; with no readable cache file the data is null and the getter
\* returns its empty default.
C27_FetchErrorFallsBack ==
  (eval.fn = "tryCache" /\ eval.fetchCalls = 1 /\ ~eval.fetchOk) =>
    /\ eval.after = eval.before
    /\ IF eval.before.kind = "json"
         THEN /\ eval.result.fromCache
              /\ eval.result.data = eval.before.data
              /\ eval.value = "data"
         ELSE /\ eval.result.error
              /\ eval.result.data = 0
              /\ eval.value = emptyDefault(eval.getter)

\* C27 witness: the fetch threw over an expired cache file and the getter
\* returned the expired data.
C27_Witness ==
  /\ eval.fn = "tryCache"
  /\ eval.fetchCalls = 1
  /\ ~eval.fetchOk
  /\ eval.before.kind = "json"
  /\ eval.before.lastUpdated # 0
  /\ eval.t - eval.before.lastUpdated >= cacheTimeOf(eval.getter)
  /\ eval.value = "data"

\* C28: a cache file that is not valid JSON does not disable its data source
\* for good: a call of the getter that finds it still calls the fetch, and
\* the file is rewritten when the chain answers.
C28_CorruptCacheRecovers ==
  (eval.fn = "tryCache" /\ eval.before.kind = "corrupt") =>
    /\ eval.fetchCalls = 1
    /\ eval.calls = MaxGetterCalls => eval.rewritten

\* C29: when getBalance reports less than the required amount, the run makes
\* no openPosition and no closePosition call and leaves the strategy's state
\* file and history file unchanged.
C29_LowBalanceNoEffect ==
  [][runLog'.lowBalance =>
       /\ pc' = "idle"
       /\ file' = file
       /\ history' = history
       /\ chain' = chain
       /\ runLog'.closeCalls = {}
       /\ runLog'.openCalls = 0]_vars

\* C29 witness: a run of a strategy that tracks a position, with positions
\* open on-chain, ended at the balance test.
C29_Witness ==
  /\ runLog.lowBalance
  /\ pc = "idle"
  /\ file.positions # {}
  /\ chain # {}

====
